---- MODULE Spec2Model ----
(***************************************************************************)
(* A model of the lockfile package: the lock-file protocol of Create and   *)
(* File.Close (flock variant and exclusive-handle variant), IsTemporary    *)
(* and the retry loop of WaitCtx, run by competitors that follow the       *)
(* package's tests (TestCreateParallel, TestWaitParallel).                 *)
(***************************************************************************)
EXTENDS Integers, FiniteSets, Sequences, TLC

\* ------------------------------------------------------------------ bounds
\* Number of competitors (goroutines or processes) on the one lock path.
NumProcs == 2
\* Number of timer-driven retries of one WaitCtx call that the model follows.
MaxAttempt == 1
\* Number of steps taken by parties that do not follow the protocol.
MaxOutsider == 1
\* Number of competitors that act when outsiders and I/O failures are present.
EnvProcs == 1

Procs == 1..NumProcs
\* Every descriptor, the path and every outsider step can pin one inode.
NumInodes == NumProcs + MaxOutsider + 1
Inodes == 1..NumInodes
\* Owner of the advisory lock of a descriptor that Create lost track of.
LeakOwner == NumProcs + 1

VARIABLES
  pc,         \* pc[p]: the position of competitor p
  caller,     \* caller[p]: the call site of the Create that p runs
  cfile,      \* cfile[p]: Create's local `file` (inode of the descriptor, 0: none)
  hfile,      \* hfile[h]: File.file of the handle made by h (inode, 0: nil)
  res,        \* res[p]: the error value of the call p runs or has returned from
  attempt,    \* attempt[p]: WaitCtx's local `attempt`
  ctxDone,    \* ctxDone[p]: the context p passed to WaitCtx is cancelled
  target,     \* target[p]: the handle p is calling Close on (0: none)
  mutex,      \* mutex[h]: File.mutex of handle h (0: unlocked, else the holder)
  path,       \* the inode the lock path names (0: the path does not exist)
  size,       \* size[i]: 0 when inode i is empty, 1 when it has content
  lock,       \* lock[i]: owner of the flock on inode i (0: unlocked)
  elsewhere,  \* inodes that are linked under another name
  leaked,     \* inodes with a locked descriptor that no File refers to
  delPending, \* exclusive-handle variant: the file is pending deletion
  counter,    \* the tests' shared atomic counter
  envLeft,    \* steps left to the outsiders
  goos,       \* runtime.GOOS of the build
  arg,        \* the argument of the function call in progress (IsTemporary, randomBackoff)
  out,        \* its return value: <<>> before the call returns, <<v>> after
  solo,       \* the competitor that has been acting alone since it started (0: none)
  soloClosed, \* the solo competitor has completed a Create and a Close that returned nil
  found,      \* found[p]: p, acting alone, found the file in place at the last
              \* open of its Create
  freeAtCancel \* freeAtCancel[p]: p's context was cancelled with the path free,
              \* and no other competitor has started a call since

vars == <<pc, caller, cfile, hfile, res, attempt, ctxDone, target, mutex, path,
          size, lock, elsewhere, leaked, delPending, counter, envLeft, goos, arg, out,
          solo, soloClosed, found, freeAtCancel>>

fsVars == <<path, size, lock, elsewhere, leaked, delPending>>
waitVars == <<attempt, ctxDone>>

\* ------------------------------------------------------------- filesystem
Referenced(i) ==
  \/ path = i
  \/ i \in elsewhere
  \/ i \in leaked
  \/ \E p \in Procs : cfile[p] = i \/ hfile[p] = i

\* The inode a creating open allocates: any inode nothing refers to.
FreshInode ==
  CHOOSE i \in Inodes :
    /\ ~Referenced(i)
    /\ \A j \in Inodes : ~Referenced(j) => i <= j

\* syscall.Stat_t.Nlink of inode i.
Nlink(i) == (IF path = i THEN 1 ELSE 0) + (IF i \in elsewhere THEN 1 ELSE 0)

\* The flock table after the descriptor that owner holds on inode i is closed.
Released(i, owner) == IF lock[i] = owner THEN [lock EXCEPT ![i] = 0] ELSE lock

\* Mutation: os.ErrPermission is temporary on every platform.
M_IsTemporaryAnyPlatform(err) == err \in {"ErrExist", "ErrPermission"}

\* Mutation: no error counts as temporary.
M_IsTemporaryNever(err) == FALSE

\* ---------------------------------------------------------- IsTemporary
IsTemporary(err) ==
  CASE err = "ErrExist" -> TRUE
    [] err = "ErrPermission" -> goos = "windows"
    [] OTHER -> FALSE

\* ------------------------------------------------------------- ghost state
Idle(q) == pc[q] = "idle"

\* A step of competitor p: whoever else was acting alone no longer is.
GhostSolo(p) ==
  /\ solo' = IF solo = p THEN p ELSE 0
  /\ soloClosed' = (solo = p /\ soloClosed)

Ghost(p) ==
  /\ GhostSolo(p)
  /\ UNCHANGED <<found, freeAtCancel>>

\* Competitor p starts a call from idle.
GhostStart(p) ==
  LET alone == \A q \in Procs \ {p} : Idle(q)
  IN /\ solo' = IF alone /\ leaked = {} THEN p ELSE 0
     /\ soloClosed' = (alone /\ solo = p /\ soloClosed)
     /\ freeAtCancel' = [q \in Procs |-> FALSE]
     /\ found' = [q \in Procs |-> FALSE]

\* Nothing refers to the lock file and nobody is using the package.
PathFree(p) == path = 0 /\ \A q \in Procs \ {p} : Idle(q)

\* ------------------------------------------- Create, advisory-lock variant
\* Mutation: flock never refuses (the lock is not exclusive).
M_FlockAlways(i) == TRUE

\* flock(fd, LOCK_EX|LOCK_NB) on inode i succeeds: nobody holds its lock.
FlockGranted(i) == lock[i] = 0

\* Mutation: Create restarts whatever the link count is.
M_LostRaceAlways(i) == TRUE

\* Mutation: Create does not look at the link count.
M_LostRaceIgnored(i) == FALSE

\* The locked file was unlinked between this Create's open and its flock.
LostRace(i) == Nlink(i) = 0

\* Mutation: the open is exclusive (O_CREATE|O_EXCL): an existing file is an error.
M_OpenExcl(p) ==
  /\ pc[p] = "open"
  /\ IF path # 0
       THEN /\ res' = [res EXCEPT ![p] = "ErrExist"]
            /\ pc' = [pc EXCEPT ![p] = "c_ret"]
            /\ UNCHANGED <<path, size, cfile>>
       ELSE /\ path' = FreshInode
            /\ size' = [size EXCEPT ![FreshInode] = 0]
            /\ cfile' = [cfile EXCEPT ![p] = FreshInode]
            /\ pc' = [pc EXCEPT ![p] = "flock"]
            /\ UNCHANGED res
  /\ found' = [found EXCEPT ![p] = (solo = p /\ path # 0)]
  /\ GhostSolo(p)
  /\ UNCHANGED <<caller, hfile, waitVars, target, mutex, lock, elsewhere, leaked,
                 delPending, counter, envLeft, goos, arg, out, freeAtCancel>>

\* os.OpenFile(path, os.O_CREATE, 0400): open the file, creating it if missing.
Open(p) ==
  /\ pc[p] = "open"
  /\ IF path # 0
       THEN /\ cfile' = [cfile EXCEPT ![p] = path]
            /\ UNCHANGED <<path, size>>
       ELSE /\ path' = FreshInode
            /\ size' = [size EXCEPT ![FreshInode] = 0]
            /\ cfile' = [cfile EXCEPT ![p] = FreshInode]
  /\ pc' = [pc EXCEPT ![p] = "flock"]
  /\ found' = [found EXCEPT ![p] = (solo = p /\ path # 0)]
  /\ GhostSolo(p)
  /\ UNCHANGED freeAtCancel
  /\ UNCHANGED <<caller, hfile, res, waitVars, target, mutex, lock, elsewhere,
                 leaked, delPending, counter, envLeft, goos, arg, out>>

\* Mutation: EWOULDBLOCK is returned as it is instead of os.ErrExist.
M_FlockRawErrno(p) ==
  /\ pc[p] = "flock"
  /\ IF FlockGranted(cfile[p])
       THEN /\ lock' = [lock EXCEPT ![cfile[p]] = p]
            /\ pc' = [pc EXCEPT ![p] = "stat"]
            /\ UNCHANGED <<cfile, res>>
       ELSE /\ cfile' = [cfile EXCEPT ![p] = 0]
            /\ res' = [res EXCEPT ![p] = "EWOULDBLOCK"]
            /\ pc' = [pc EXCEPT ![p] = "c_ret"]
            /\ UNCHANGED lock
  /\ Ghost(p)
  /\ UNCHANGED <<caller, hfile, waitVars, target, mutex, path, size, elsewhere,
                 leaked, delPending, counter, envLeft, goos, arg, out>>

\* syscall.Flock: take the lock, or close the descriptor and return os.ErrExist.
Flock(p) ==
  /\ pc[p] = "flock"
  /\ IF FlockGranted(cfile[p])
       THEN /\ lock' = [lock EXCEPT ![cfile[p]] = p]
            /\ pc' = [pc EXCEPT ![p] = "stat"]
            /\ UNCHANGED <<cfile, res>>
       ELSE /\ cfile' = [cfile EXCEPT ![p] = 0]
            /\ res' = [res EXCEPT ![p] = "ErrExist"]
            /\ pc' = [pc EXCEPT ![p] = "c_ret"]
            /\ UNCHANGED lock
  /\ Ghost(p)
  /\ UNCHANGED <<caller, hfile, waitVars, target, mutex, path, size, elsewhere,
                 leaked, delPending, counter, envLeft, goos, arg, out>>

\* file.Stat and the checks on its result: a file with content is an error
\* (returned with the descriptor still open and locked), a file without links
\* restarts the loop, anything else is the lock.
Stat(p) ==
  /\ pc[p] = "stat"
  /\ LET i == cfile[p] IN
       IF size[i] # 0
         THEN /\ res' = [res EXCEPT ![p] = "ErrNotEmpty"]
              /\ pc' = [pc EXCEPT ![p] = "c_ret"]
              /\ leaked' = leaked \cup {i}
              /\ lock' = [lock EXCEPT ![i] = LeakOwner]
              /\ UNCHANGED hfile
         ELSE IF LostRace(i)
           THEN /\ lock' = Released(i, p)
                /\ pc' = [pc EXCEPT ![p] = "open"]
                /\ UNCHANGED <<res, hfile, leaked>>
           ELSE /\ hfile' = [hfile EXCEPT ![p] = i]
                /\ res' = [res EXCEPT ![p] = "nil"]
                /\ pc' = [pc EXCEPT ![p] = "c_ret"]
                /\ UNCHANGED <<lock, leaked>>
  /\ cfile' = [cfile EXCEPT ![p] = 0]
  /\ Ghost(p)
  /\ UNCHANGED <<caller, waitVars, target, mutex, path, size, elsewhere,
                 delPending, counter, envLeft, goos, arg, out>>

\* --------------------------------------------- Close, advisory-lock variant
\* Mutation: Close does not take f.mutex before it reads f.file.
M_CloseEnterNoMutex(t) ==
  /\ pc[t] = "cl_enter"
  /\ IF hfile[target[t]] = 0
       THEN /\ res' = [res EXCEPT ![t] = "ErrClosed"]
            /\ pc' = [pc EXCEPT ![t] = "x_ret"]
            /\ UNCHANGED mutex
       ELSE /\ res' = [res EXCEPT ![t] = "nil"]
            /\ pc' = [pc EXCEPT ![t] = IF goos = "windows" THEN "cl_close" ELSE "cl_fstat"]
            /\ mutex' = [mutex EXCEPT ![target[t]] = t]
  /\ Ghost(t)
  /\ UNCHANGED <<caller, cfile, hfile, waitVars, target, fsVars, counter,
                 envLeft, goos, arg, out>>

\* f.mutex.Lock and the check of f.file: a closed handle returns os.ErrClosed.
CloseEnter(t) ==
  /\ pc[t] = "cl_enter"
  /\ mutex[target[t]] = 0
  /\ IF hfile[target[t]] = 0
       THEN /\ res' = [res EXCEPT ![t] = "ErrClosed"]
            /\ pc' = [pc EXCEPT ![t] = "x_ret"]
            /\ UNCHANGED mutex
       ELSE /\ res' = [res EXCEPT ![t] = "nil"]
            /\ pc' = [pc EXCEPT ![t] = IF goos = "windows" THEN "cl_close" ELSE "cl_fstat"]
            /\ mutex' = [mutex EXCEPT ![target[t]] = t]
  /\ Ghost(t)
  /\ UNCHANGED <<caller, cfile, hfile, waitVars, target, fsVars, counter,
                 envLeft, goos, arg, out>>

\* fi1, err := f.file.Stat()
CloseFstat(t) ==
  /\ pc[t] = "cl_fstat"
  /\ pc' = [pc EXCEPT ![t] = "cl_stat"]
  /\ Ghost(t)
  /\ UNCHANGED <<caller, cfile, hfile, res, waitVars, target, mutex, fsVars,
                 counter, envLeft, goos, arg, out>>

\* Mutation: the comparison reads the descriptor of Create, not of the File.
M_SameFileWrongField(h) == path = cfile[h]

\* os.SameFile(fi1, fi2): the path names the inode of the handle's descriptor.
SameFile(h) == path = hfile[h]

\* Mutation: the descriptor is closed, and its flock dropped, before the unlink.
M_CloseStatClosesFirst(t) ==
  /\ pc[t] = "cl_stat"
  /\ IF path = 0
       THEN /\ res' = [res EXCEPT ![t] = "ErrStatPath"]
            /\ pc' = [pc EXCEPT ![t] = "cl_close"]
            /\ UNCHANGED lock
       ELSE IF ~SameFile(target[t])
         THEN /\ res' = [res EXCEPT ![t] = "ErrMoved"]
              /\ pc' = [pc EXCEPT ![t] = "cl_close"]
              /\ UNCHANGED lock
         ELSE /\ pc' = [pc EXCEPT ![t] = "cl_unlink"]
              /\ lock' = Released(hfile[target[t]], target[t])
              /\ UNCHANGED res
  /\ Ghost(t)
  /\ UNCHANGED <<caller, cfile, hfile, waitVars, target, mutex, path, size,
                 elsewhere, leaked, delPending, counter, envLeft, goos, arg, out>>

\* fi2, err := os.Stat(f.path) and the comparison of fi1 with fi2.
CloseStat(t) ==
  /\ pc[t] = "cl_stat"
  /\ IF path = 0
       THEN /\ res' = [res EXCEPT ![t] = "ErrStatPath"]
            /\ pc' = [pc EXCEPT ![t] = "cl_close"]
       ELSE IF ~SameFile(target[t])
         THEN /\ res' = [res EXCEPT ![t] = "ErrMoved"]
              /\ pc' = [pc EXCEPT ![t] = "cl_close"]
         ELSE /\ pc' = [pc EXCEPT ![t] = "cl_unlink"]
              /\ UNCHANGED res
  /\ Ghost(t)
  /\ UNCHANGED <<caller, cfile, hfile, waitVars, target, mutex, fsVars, counter,
                 envLeft, goos, arg, out>>

\* Mutation: Close releases the lock without unlinking the file.
M_CloseUnlinkSkipped(t) ==
  /\ pc[t] = "cl_unlink"
  /\ pc' = [pc EXCEPT ![t] = "cl_close"]
  /\ Ghost(t)
  /\ UNCHANGED <<caller, cfile, hfile, res, waitVars, target, mutex, fsVars,
                 counter, envLeft, goos, arg, out>>

\* syscall.Unlink(f.path): removes whatever file the path names now.
CloseUnlink(t) ==
  /\ pc[t] = "cl_unlink"
  /\ IF path = 0
       THEN /\ res' = [res EXCEPT ![t] = "ErrUnlink"]
            /\ UNCHANGED path
       ELSE /\ path' = 0
            /\ UNCHANGED res
  /\ pc' = [pc EXCEPT ![t] = "cl_close"]
  /\ Ghost(t)
  /\ UNCHANGED <<caller, cfile, hfile, waitVars, target, mutex, size, lock,
                 elsewhere, leaked, delPending, counter, envLeft, goos, arg, out>>

\* Mutation: f.file is set to nil only when Close is about to return nil.
M_CloseDeferredKeepsFile(t) ==
  /\ pc[t] = "cl_close"
  /\ goos # "windows"
  /\ lock' = Released(hfile[target[t]], target[t])
  /\ hfile' = IF res[t] = "nil" THEN [hfile EXCEPT ![target[t]] = 0] ELSE hfile
  /\ mutex' = [mutex EXCEPT ![target[t]] = 0]
  /\ pc' = [pc EXCEPT ![t] = "x_ret"]
  /\ solo' = IF solo = t THEN t ELSE 0
  /\ soloClosed' = (solo = t /\ (soloClosed \/ res[t] = "nil"))
  /\ UNCHANGED <<found, freeAtCancel>>
  /\ UNCHANGED <<caller, cfile, res, waitVars, target, path, size, elsewhere,
                 leaked, delPending, counter, envLeft, goos, arg, out>>

\* The deferred function: f.file.Close() (which drops the flock), f.file = nil,
\* and the deferred f.mutex.Unlock.
CloseDeferred(t) ==
  /\ pc[t] = "cl_close"
  /\ goos # "windows"
  /\ lock' = Released(hfile[target[t]], target[t])
  /\ hfile' = [hfile EXCEPT ![target[t]] = 0]
  /\ mutex' = [mutex EXCEPT ![target[t]] = 0]
  /\ pc' = [pc EXCEPT ![t] = "x_ret"]
  /\ solo' = IF solo = t THEN t ELSE 0
  /\ soloClosed' = (solo = t /\ (soloClosed \/ res[t] = "nil"))
  /\ UNCHANGED <<found, freeAtCancel>>
  /\ UNCHANGED <<caller, cfile, res, waitVars, target, path, size, elsewhere,
                 leaked, delPending, counter, envLeft, goos, arg, out>>

\* ------------------------------------------------------------------ WaitCtx
InWait(p) == caller[p] \in {"wait_first", "wait_loop"}

\* WaitCtx is called with a fresh context: its first Create.
WaitStart(p) ==
  /\ pc[p] = "idle"
  /\ pc' = [pc EXCEPT ![p] = IF goos = "windows" THEN "wcreate" ELSE "open"]
  /\ caller' = [caller EXCEPT ![p] = "wait_first"]
  /\ GhostStart(p)
  /\ UNCHANGED <<cfile, hfile, res, waitVars, target, mutex, fsVars, counter,
                 envLeft, goos, arg, out>>

\* Mutation: WaitCtx returns whatever its Create returned, temporary or not.
M_WaitAfterCreateNoRetry(p) ==
  /\ pc[p] = "c_ret"
  /\ InWait(p)
  /\ pc' = [pc EXCEPT ![p] = "w_ret"]
  /\ found' = [found EXCEPT ![p] = FALSE]
  /\ GhostSolo(p)
  /\ UNCHANGED freeAtCancel
  /\ UNCHANGED <<caller, attempt, cfile, hfile, res, ctxDone, target, mutex, fsVars,
                 counter, envLeft, goos, arg, out>>

\* The decision after each Create: return the File, return a non-temporary
\* error, or (re)arm the timer; attempt is 0 before the loop and grows by one
\* after every failure in it.
WaitAfterCreate(p) ==
  /\ pc[p] = "c_ret"
  /\ InWait(p)
  /\ IF res[p] = "nil" \/ ~IsTemporary(res[p])
       THEN /\ pc' = [pc EXCEPT ![p] = "w_ret"]
            /\ UNCHANGED <<caller, attempt>>
       ELSE /\ pc' = [pc EXCEPT ![p] = "select"]
            /\ caller' = [caller EXCEPT ![p] = "wait_loop"]
            /\ attempt' = [attempt EXCEPT ![p] =
                             IF caller[p] = "wait_first" THEN 0 ELSE attempt[p] + 1]
  /\ found' = [found EXCEPT ![p] = FALSE]
  /\ GhostSolo(p)
  /\ UNCHANGED freeAtCancel
  /\ UNCHANGED <<cfile, hfile, res, ctxDone, target, mutex, fsVars, counter,
                 envLeft, goos, arg, out>>

\* select, case <-ctx.Done(): return nil, ctx.Err()
SelectDone(p) ==
  /\ pc[p] = "select"
  /\ ctxDone[p]
  /\ res' = [res EXCEPT ![p] = "ctxErr"]
  /\ pc' = [pc EXCEPT ![p] = "w_ret"]
  /\ Ghost(p)
  /\ UNCHANGED <<caller, cfile, hfile, waitVars, target, mutex, fsVars, counter,
                 envLeft, goos, arg, out>>

\* Mutation: the timer is never armed, so its case of the select never runs.
M_SelectTimerNever(p) ==
  /\ pc[p] = "select"
  /\ FALSE
  /\ UNCHANGED vars

\* select, case <-timer.C: the next Create. A timer that has fired is ready
\* whether or not the context is done as well.
SelectTimer(p) ==
  /\ pc[p] = "select"
  /\ attempt[p] < MaxAttempt
  /\ pc' = [pc EXCEPT ![p] = IF goos = "windows" THEN "wcreate" ELSE "open"]
  /\ res' = [res EXCEPT ![p] = "none"]
  /\ Ghost(p)
  /\ UNCHANGED <<caller, cfile, hfile, waitVars, target, mutex, fsVars, counter,
                 envLeft, goos, arg, out>>

\* The deadline of the context passed to WaitCtx passes, or cancel is called.
CtxCancel(p) ==
  /\ InWait(p)
  /\ pc[p] # "w_ret"
  /\ ~ctxDone[p]
  /\ ctxDone' = [ctxDone EXCEPT ![p] = TRUE]
  /\ freeAtCancel' = [freeAtCancel EXCEPT ![p] = PathFree(p)]
  /\ UNCHANGED <<pc, caller, cfile, hfile, res, attempt, target, mutex, fsVars,
                 counter, envLeft, goos, arg, out, solo, soloClosed, found>>

\* ------------------------------------------------------------- the callers
\* TestCreateParallel: one round starts with a call of Create.
TestStart(p) ==
  /\ pc[p] = "idle"
  /\ pc' = [pc EXCEPT ![p] = IF goos = "windows" THEN "wcreate" ELSE "open"]
  /\ caller' = [caller EXCEPT ![p] = "test"]
  /\ GhostStart(p)
  /\ UNCHANGED <<cfile, hfile, res, waitVars, target, mutex, fsVars, counter,
                 envLeft, goos, arg, out>>

\* TestCreateParallel after Create: acquire() on success, sleep and call
\* Create again on a temporary error, fail the round on any other error.
TestAfterCreate(p) ==
  /\ pc[p] = "c_ret"
  /\ caller[p] = "test"
  /\ IF res[p] = "nil"
       THEN /\ counter' = counter + 1
            /\ pc' = [pc EXCEPT ![p] = "held"]
            /\ caller' = [caller EXCEPT ![p] = "none"]
       ELSE IF IsTemporary(res[p])
         THEN /\ pc' = [pc EXCEPT ![p] = IF goos = "windows" THEN "wcreate" ELSE "open"]
              /\ UNCHANGED <<counter, caller>>
         ELSE /\ pc' = [pc EXCEPT ![p] = "idle"]
              /\ caller' = [caller EXCEPT ![p] = "none"]
              /\ UNCHANGED counter
  /\ res' = [res EXCEPT ![p] = "none"]
  /\ found' = [found EXCEPT ![p] = FALSE]
  /\ GhostSolo(p)
  /\ UNCHANGED freeAtCancel
  /\ UNCHANGED <<cfile, hfile, waitVars, target, mutex, fsVars, envLeft, goos, arg, out>>

\* TestWaitParallel after WaitCtx: acquire() on success, fail the round on
\* any error; the context of the round is dropped.
TestAfterWait(p) ==
  /\ pc[p] = "w_ret"
  /\ IF res[p] = "nil"
       THEN /\ counter' = counter + 1
            /\ pc' = [pc EXCEPT ![p] = "held"]
       ELSE /\ pc' = [pc EXCEPT ![p] = "idle"]
            /\ UNCHANGED counter
  /\ caller' = [caller EXCEPT ![p] = "none"]
  /\ res' = [res EXCEPT ![p] = "none"]
  /\ attempt' = [attempt EXCEPT ![p] = 0]
  /\ ctxDone' = [ctxDone EXCEPT ![p] = FALSE]
  /\ freeAtCancel' = [freeAtCancel EXCEPT ![p] = FALSE]
  /\ GhostSolo(p)
  /\ UNCHANGED found
  /\ UNCHANGED <<cfile, hfile, target, mutex, fsVars, envLeft, goos, arg, out>>

\* Both tests, holding the lock: release(), then the deferred lock.Close().
TestRelease(p) ==
  /\ pc[p] = "held"
  /\ counter' = counter - 1
  /\ target' = [target EXCEPT ![p] = p]
  /\ pc' = [pc EXCEPT ![p] = "cl_enter"]
  /\ Ghost(p)
  /\ UNCHANGED <<caller, cfile, hfile, res, waitVars, mutex, fsVars, envLeft, goos, arg, out>>

\* A caller that calls Close on the same File once more, after a Close that
\* returned nil ("again") or after one that returned an error.
CloseAgain(t) ==
  /\ pc[t] = "x_ret"
  /\ pc' = [pc EXCEPT ![t] = "cl_enter"]
  /\ res' = [res EXCEPT ![t] = "none"]
  /\ caller' = [caller EXCEPT ![t] =
                  IF caller[t] # "none" THEN caller[t]
                  ELSE IF res[t] = "nil" THEN "again" ELSE "again_failed"]
  /\ Ghost(t)
  /\ UNCHANGED <<cfile, hfile, waitVars, target, mutex, fsVars, counter,
                 envLeft, goos, arg, out>>

\* The caller drops the File after Close returned.
TestDone(t) ==
  /\ pc[t] = "x_ret"
  /\ pc' = [pc EXCEPT ![t] = "idle"]
  /\ res' = [res EXCEPT ![t] = "none"]
  /\ target' = [target EXCEPT ![t] = 0]
  /\ caller' = [caller EXCEPT ![t] = "none"]
  /\ Ghost(t)
  /\ UNCHANGED <<cfile, hfile, waitVars, mutex, fsVars, counter, envLeft, goos, arg, out>>

\* ------------------------------------------------------------ specifications
\* The path is free, or names an empty file that a holder left behind.
InitCommon ==
  /\ pc = [p \in Procs |-> "idle"]
  /\ caller = [p \in Procs |-> "none"]
  /\ cfile = [p \in Procs |-> 0]
  /\ hfile = [p \in Procs |-> 0]
  /\ res = [p \in Procs |-> "none"]
  /\ attempt = [p \in Procs |-> 0]
  /\ ctxDone = [p \in Procs |-> FALSE]
  /\ target = [p \in Procs |-> 0]
  /\ mutex = [p \in Procs |-> 0]
  /\ path \in {0, 1}
  /\ size = [i \in Inodes |-> 0]
  /\ lock = [i \in Inodes |-> 0]
  /\ elsewhere = {}
  /\ leaked = {}
  /\ delPending = FALSE
  /\ counter = 0
  /\ solo = 0
  /\ soloClosed = FALSE
  /\ found = [p \in Procs |-> FALSE]
  /\ freeAtCancel = [p \in Procs |-> FALSE]
  /\ arg = 0
  /\ out = <<>>

Init ==
  /\ InitCommon
  /\ goos = "linux"
  /\ envLeft = 0

\* Competitors that follow the protocol, and nothing else touching the path.
Next ==
  \E p \in Procs :
    \/ TestStart(p)
    \/ WaitStart(p)
    \/ Open(p)
    \/ Flock(p)
    \/ Stat(p)
    \/ TestAfterCreate(p)
    \/ WaitAfterCreate(p)
    \/ SelectDone(p)
    \/ SelectTimer(p)
    \/ CtxCancel(p)
    \/ TestAfterWait(p)
    \/ TestRelease(p)
    \/ CloseEnter(p)
    \/ CloseFstat(p)
    \/ CloseStat(p)
    \/ CloseUnlink(p)
    \/ CloseDeferred(p)
    \/ CloseAgain(p)
    \/ TestDone(p)

Spec == Init /\ [][Next]_vars

\* ------------------------------------------- failures of the system calls
\* os.OpenFile fails: Create returns the error as it is.
OpenFail(p) ==
  /\ pc[p] = "open"
  /\ res' = [res EXCEPT ![p] = "ErrOpen"]
  /\ pc' = [pc EXCEPT ![p] = "c_ret"]
  /\ Ghost(p)
  /\ UNCHANGED <<caller, cfile, hfile, waitVars, target, mutex, fsVars, counter,
                 envLeft, goos, arg, out>>

\* syscall.Flock fails with an error other than EWOULDBLOCK: close and return it.
FlockFail(p) ==
  /\ pc[p] = "flock"
  /\ cfile' = [cfile EXCEPT ![p] = 0]
  /\ res' = [res EXCEPT ![p] = "ErrFlock"]
  /\ pc' = [pc EXCEPT ![p] = "c_ret"]
  /\ Ghost(p)
  /\ UNCHANGED <<caller, hfile, waitVars, target, mutex, fsVars, counter,
                 envLeft, goos, arg, out>>

\* file.Stat fails, or (on an empty file) its result has an unexpected type:
\* close the descriptor and return a wrapped error.
StatFail(p) ==
  /\ pc[p] = "stat"
  /\ \E e \in {"ErrStatFd"} \cup (IF size[cfile[p]] = 0 THEN {"ErrStatType"} ELSE {}) :
       res' = [res EXCEPT ![p] = e]
  /\ lock' = Released(cfile[p], p)
  /\ cfile' = [cfile EXCEPT ![p] = 0]
  /\ pc' = [pc EXCEPT ![p] = "c_ret"]
  /\ Ghost(p)
  /\ UNCHANGED <<caller, hfile, waitVars, target, mutex, path, size, elsewhere,
                 leaked, delPending, counter, envLeft, goos, arg, out>>

\* Close: f.file.Stat fails.
CloseFstatFail(t) ==
  /\ pc[t] = "cl_fstat"
  /\ res' = [res EXCEPT ![t] = "ErrFstat"]
  /\ pc' = [pc EXCEPT ![t] = "cl_close"]
  /\ Ghost(t)
  /\ UNCHANGED <<caller, cfile, hfile, waitVars, target, mutex, fsVars, counter,
                 envLeft, goos, arg, out>>

\* Close: syscall.Unlink fails and leaves the path as it is.
CloseUnlinkFail(t) ==
  /\ pc[t] = "cl_unlink"
  /\ res' = [res EXCEPT ![t] = "ErrUnlink"]
  /\ pc' = [pc EXCEPT ![t] = "cl_close"]
  /\ Ghost(t)
  /\ UNCHANGED <<caller, cfile, hfile, waitVars, target, mutex, fsVars, counter,
                 envLeft, goos, arg, out>>

\* Close: f.file.Close reports an error (the descriptor is gone all the same);
\* it becomes the result unless an earlier error is already being returned.
CloseDeferredFail(t) ==
  /\ pc[t] = "cl_close"
  /\ goos # "windows"
  /\ lock' = Released(hfile[target[t]], target[t])
  /\ hfile' = [hfile EXCEPT ![target[t]] = 0]
  /\ mutex' = [mutex EXCEPT ![target[t]] = 0]
  /\ res' = [res EXCEPT ![t] = IF res[t] = "nil" THEN "ErrCloseFd" ELSE res[t]]
  /\ pc' = [pc EXCEPT ![t] = "x_ret"]
  /\ Ghost(t)
  /\ UNCHANGED <<caller, cfile, waitVars, target, path, size, elsewhere, leaked,
                 delPending, counter, envLeft, goos, arg, out>>

\* The Go runtime finalizes an os.File nothing refers to: its descriptor is
\* closed, which drops the flock it held.
Finalize(i) ==
  /\ i \in leaked
  /\ leaked' = leaked \ {i}
  /\ lock' = Released(i, LeakOwner)
  /\ solo' = 0
  /\ soloClosed' = FALSE
  /\ found' = [q \in Procs |-> FALSE]
  /\ UNCHANGED freeAtCancel
  /\ UNCHANGED <<pc, caller, cfile, hfile, res, waitVars, target, mutex, path,
                 size, elsewhere, delPending, counter, envLeft, goos, arg, out>>

\* ------------------------------------------------------------------ outsiders
\* Parties that do not follow the protocol: they delete the lock file, move
\* it away, put another file in its place, or write to it.
OutsiderStep ==
  /\ envLeft > 0
  /\ envLeft' = envLeft - 1
  /\ solo' = 0
  /\ soloClosed' = FALSE
  /\ found' = [q \in Procs |-> FALSE]
  /\ UNCHANGED freeAtCancel
  /\ UNCHANGED <<pc, caller, cfile, hfile, res, waitVars, target, mutex, lock,
                 leaked, delPending, counter, goos, arg, out>>

OutsiderRemove ==
  /\ path # 0
  /\ path' = 0
  /\ OutsiderStep
  /\ UNCHANGED <<size, elsewhere>>

OutsiderRename ==
  /\ path # 0
  /\ path' = 0
  /\ elsewhere' = elsewhere \cup {path}
  /\ OutsiderStep
  /\ UNCHANGED size

OutsiderReplace ==
  /\ path' = FreshInode
  /\ size' = [size EXCEPT ![FreshInode] = 0]
  /\ OutsiderStep
  /\ UNCHANGED elsewhere

OutsiderWrite ==
  /\ path # 0
  /\ size[path] = 0
  /\ size' = [size EXCEPT ![path] = 1]
  /\ OutsiderStep
  /\ UNCHANGED <<path, elsewhere>>

InitEnv ==
  /\ InitCommon
  /\ goos = "linux"
  /\ envLeft = MaxOutsider

\* TestCreateParallel's competitors with I/O failures, outsiders and the
\* finalizer.
NextEnv ==
  \/ \E p \in 1..EnvProcs :
       \/ TestStart(p)
       \/ Open(p)
       \/ Flock(p)
       \/ Stat(p)
       \/ TestAfterCreate(p)
       \/ TestRelease(p)
       \/ CloseEnter(p)
       \/ CloseFstat(p)
       \/ CloseStat(p)
       \/ CloseUnlink(p)
       \/ CloseDeferred(p)
       \/ CloseAgain(p)
       \/ TestDone(p)
       \/ OpenFail(p)
       \/ FlockFail(p)
       \/ StatFail(p)
       \/ CloseFstatFail(p)
       \/ CloseUnlinkFail(p)
       \/ CloseDeferredFail(p)
  \/ \E i \in Inodes : Finalize(i)
  \/ OutsiderRemove
  \/ OutsiderRename
  \/ OutsiderReplace
  \/ OutsiderWrite

SpecEnv == InitEnv /\ [][NextEnv]_vars

\* ------------------------------------------------- exclusive-handle variant
\* What CreateFile answers for CREATE_NEW with share mode 0: the path is free,
\* names a file, or names a file whose deletion is pending.
CreateFileErrno ==
  IF path = 0 THEN "OK"
  ELSE IF delPending THEN "ERROR_ACCESS_DENIED"
  ELSE "ERROR_FILE_EXISTS"

\* Mutation: the errno of createFile is returned without translation.
M_WinCreateErrorRaw(errno) == errno

\* The switch on the errno of createFile.
WinCreateError(errno) ==
  CASE errno = "ERROR_FILE_EXISTS" -> "ErrExist"
    [] errno = "ERROR_ACCESS_DENIED" -> "ErrPermission"
    [] OTHER -> errno

\* Create: one createFile call, and a File around the handle when it succeeds.
WinCreate(p) ==
  /\ pc[p] = "wcreate"
  /\ IF CreateFileErrno = "OK"
       THEN /\ path' = FreshInode
            /\ hfile' = [hfile EXCEPT ![p] = FreshInode]
            /\ res' = [res EXCEPT ![p] = "nil"]
       ELSE /\ res' = [res EXCEPT ![p] = WinCreateError(CreateFileErrno)]
            /\ UNCHANGED <<path, hfile>>
  /\ pc' = [pc EXCEPT ![p] = "c_ret"]
  /\ Ghost(p)
  /\ UNCHANGED <<caller, cfile, waitVars, target, mutex, size, lock, elsewhere,
                 leaked, delPending, counter, envLeft, goos, arg, out>>

\* Close: f.file.Close() and f.file = nil; closing the only handle of a
\* delete-on-close file starts its deletion.
WinClose(t) ==
  /\ pc[t] = "cl_close"
  /\ goos = "windows"
  /\ hfile' = [hfile EXCEPT ![target[t]] = 0]
  /\ mutex' = [mutex EXCEPT ![target[t]] = 0]
  /\ delPending' = TRUE
  /\ pc' = [pc EXCEPT ![t] = "x_ret"]
  /\ solo' = IF solo = t THEN t ELSE 0
  /\ soloClosed' = (solo = t /\ (soloClosed \/ res[t] = "nil"))
  /\ UNCHANGED <<found, freeAtCancel>>
  /\ UNCHANGED <<caller, cfile, res, waitVars, target, path, size, lock,
                 elsewhere, leaked, counter, envLeft, goos, arg, out>>

\* The system completes the deletion of the closed file.
WinDeleted ==
  /\ delPending
  /\ delPending' = FALSE
  /\ path' = 0
  /\ UNCHANGED <<pc, caller, cfile, hfile, res, waitVars, target, mutex, size,
                 lock, elsewhere, leaked, counter, envLeft, goos, arg, out, solo, soloClosed, found, freeAtCancel>>

InitWin ==
  /\ InitCommon
  /\ goos = "windows"
  /\ envLeft = 0

NextWin ==
  \/ \E p \in Procs :
       \/ TestStart(p)
       \/ WaitStart(p)
       \/ WinCreate(p)
       \/ TestAfterCreate(p)
       \/ WaitAfterCreate(p)
       \/ SelectDone(p)
       \/ SelectTimer(p)
       \/ CtxCancel(p)
       \/ TestAfterWait(p)
       \/ TestRelease(p)
       \/ CloseEnter(p)
       \/ WinClose(p)
       \/ CloseAgain(p)
       \/ TestDone(p)
  \/ WinDeleted

SpecWin == InitWin /\ [][NextWin]_vars

\* ---------------------------------------------------------------- liveness
\* The competitor that calls WaitCtx; the others run TestCreateParallel.
Waiter == 1

\* The steps a running competitor takes on its own: everything but the start
\* of a round, the release of a held lock and the cancellation of a context.
Program(p) ==
  \/ Open(p)
  \/ Flock(p)
  \/ Stat(p)
  \/ TestAfterCreate(p)
  \/ WaitAfterCreate(p)
  \/ SelectDone(p)
  \/ SelectTimer(p)
  \/ TestAfterWait(p)
  \/ CloseEnter(p)
  \/ CloseFstat(p)
  \/ CloseStat(p)
  \/ CloseUnlink(p)
  \/ CloseDeferred(p)
  \/ TestDone(p)

NextLive ==
  \/ WaitStart(Waiter)
  \/ CtxCancel(Waiter)
  \/ \E p \in Procs \ {Waiter} : TestStart(p)
  \/ \E p \in Procs : TestRelease(p)
  \/ \E p \in Procs : Program(p)

\* The scheduler runs every goroutine that can run, and armed timers fire.
SpecLive == Init /\ [][NextLive]_vars /\ \A p \in Procs : WF_vars(Program(p))

\* ------------------------------------------------------------------ claims
HoldsLock(p) == pc[p] = "held"

\* Create or WaitCtx has returned a File to p that p has not called Close on.
HasFile(p) == HoldsLock(p) \/ (pc[p] \in {"c_ret", "w_ret"} /\ res[p] = "nil")

\* C1: mutual exclusion. Under every interleaving of the steps of Create and
\* Close, at most one competitor at a time has a File that Create or WaitCtx
\* returned and that it has not yet called Close on, and the shared counter
\* (incremented after each acquisition, decremented before each Close) is
\* always 0 or 1.
MutualExclusion ==
  /\ counter \in {0, 1}
  /\ Cardinality({p \in Procs : HasFile(p)}) <= 1

\* One competitor holds the lock while another has taken the flock of a file
\* whose name the previous holder removed.
MutualExclusionWitness ==
  \E p, q \in Procs :
    /\ p # q
    /\ HoldsLock(p)
    /\ counter = 1
    /\ pc[q] = "stat"
    /\ lock[cfile[q]] = q

\* C2: with only cooperating competitors and no I/O failure, every Create
\* returns a File or an error for which IsTemporary is true, and every
\* Close of a File that Create returned returns nil.
NoPermanentError ==
  \A p \in Procs :
    /\ pc[p] = "c_ret" => (res[p] = "nil" \/ IsTemporary(res[p]))
    /\ pc[p] \in {"cl_fstat", "cl_stat", "cl_unlink", "cl_close"} => res[p] = "nil"
    /\ (pc[p] = "x_ret" /\ caller[p] = "none") => res[p] = "nil"

\* One competitor's Close has returned while another's Create has just
\* failed on contention.
NoPermanentErrorWitness ==
  \E p, q \in Procs :
    /\ pc[p] = "x_ret" /\ caller[p] = "none" /\ res[p] = "nil"
    /\ pc[q] = "c_ret" /\ res[q] = "ErrExist"

NoDoubleFree ==
  \A t \in Procs :
    /\ pc[t] = "x_ret" => hfile[target[t]] = 0
    /\ caller[t] \in {"again", "again_failed"} =>
         /\ pc[t] \in {"cl_enter", "x_ret"}
         /\ hfile[target[t]] = 0
         /\ pc[t] = "x_ret" => res[t] = "ErrClosed"

\* A second Close has returned after a first Close that returned an error
\* and left a file at the path.
NoDoubleFreeWitness ==
  \E t \in Procs :
    caller[t] = "again_failed" /\ pc[t] = "x_ret" /\ res[t] = "ErrClosed" /\ path # 0

\* While q holds the lock, q's File and the file at the path stay as they are.
HolderUntouched ==
  \A q \in Procs :
    (HoldsLock(q) /\ pc'[q] = "held") =>
      /\ path = hfile[q] /\ path' = path
      /\ hfile'[q] = hfile[q]
      /\ lock[hfile[q]] = q /\ lock'[hfile[q]] = q
      /\ size'[hfile[q]] = size[hfile[q]]

\* C5: a Create that returns while another competitor holds a File for the
\* path returns os.ErrExist and no File, and no step of anyone changes the
\* holder's lock or the lock file while it holds.
CreateWhileHeld ==
  /\ [](\A p, q \in Procs :
          (p # q /\ HoldsLock(q) /\ pc[p] = "c_ret") =>
            (res[p] = "ErrExist" /\ hfile[p] = 0))
  /\ [][HolderUntouched]_vars

\* A Create has failed with os.ErrExist while another competitor holds the lock.
CreateWhileHeldWitness ==
  \E p, q \in Procs :
    p # q /\ HoldsLock(q) /\ path = hfile[q] /\ pc[p] = "c_ret" /\ res[p] = "ErrExist"

\* No Create fails except at its flock, on a file whose lock someone holds.
FailsOnlyOnLock ==
  \A p \in Procs :
    /\ (pc[p] = "open" /\ path # 0 /\ pc'[p] # "open") =>
         (pc'[p] = "flock" /\ cfile'[p] = path /\ path' = path)
    /\ (pc[p] # "c_ret" /\ pc'[p] = "c_ret" /\ res'[p] # "nil") =>
         (pc[p] = "flock" /\ lock[cfile[p]] # 0 /\ res'[p] = "ErrExist")

ExistingFileIsErrExist ==
  \A p \in Procs :
    (pc[p] = "c_ret" /\ found[p]) => res[p] = "ErrExist"

\* What a createFile call on an existing file must lead to.
WinCreateOnExisting ==
  \A p \in Procs :
    (pc[p] = "wcreate" /\ pc'[p] = "c_ret" /\ path # 0) =>
      /\ res'[p] = IF delPending THEN "ErrPermission" ELSE "ErrExist"
      /\ hfile'[p] = 0
      /\ path' = path

\* C8: on the exclusive-handle variant, Create fails with os.ErrExist
\* whenever a file exists at the path, whether or not anyone holds it open,
\* and with os.ErrPermission when access is denied (the file is pending
\* deletion); it returns no File in either case.
WinCreateExisting ==
  /\ [](\A p \in Procs :
          (pc[p] = "c_ret" /\ res[p] # "nil") =>
            (res[p] \in {"ErrExist", "ErrPermission"} /\ hfile[p] = 0))
  /\ [][WinCreateOnExisting]_vars

\* One Create has failed with os.ErrExist and another with os.ErrPermission,
\* and nobody holds the file open.
WinCreateExistingWitness ==
  \E p, q \in Procs :
    /\ pc[p] = "c_ret" /\ res[p] = "ErrExist"
    /\ pc[q] = "c_ret" /\ res[q] = "ErrPermission"
    /\ \A r \in Procs : hfile[r] = 0

\* C9: a WaitCtx that returns while another competitor holds the lock returns
\* no File but the context's error, after the context was cancelled, and every
\* Create it ran while the lock was held failed with a temporary error.
WaitWhileHeld ==
  \A p \in Procs :
    /\ (pc[p] = "w_ret" /\ res[p] = "ctxErr") => ctxDone[p]
    /\ \A q \in Procs \ {p} :
         HoldsLock(q) =>
           /\ pc[p] = "w_ret" => (res[p] = "ctxErr" /\ ctxDone[p] /\ hfile[p] = 0)
           /\ (pc[p] = "c_ret" /\ InWait(p)) =>
                (res[p] # "nil" /\ IsTemporary(res[p]) /\ hfile[p] = 0)

\* A WaitCtx that retried has returned the context's error while another
\* competitor holds the lock.
WaitWhileHeldWitness ==
  \E p, q \in Procs :
    /\ p # q /\ HoldsLock(q)
    /\ pc[p] = "w_ret" /\ res[p] = "ctxErr" /\ attempt[p] >= 1

\* WaitCtx has returned a File to p.
GotFile(p) == pc[p] = "w_ret" /\ res[p] = "nil" /\ hfile[p] # 0

\* p's WaitCtx is in its loop with the context live, not past the retries the
\* model follows, while the path is free and nobody else is using it.
WaitingFree(p) ==
  /\ caller[p] = "wait_loop"
  /\ ~ctxDone[p]
  /\ PathFree(p)
  /\ \/ pc[p] \in {"open", "flock", "stat"}
     \/ pc[p] = "select" /\ attempt[p] < MaxAttempt

\* C10 as stated: a WaitCtx whose first Create failed, whose path became free
\* before its context was cancelled and was not acquired by anyone since,
\* returns a File.
FreeBeforeCancelReturnsFile ==
  \A p \in Procs :
    (pc[p] = "w_ret" /\ caller[p] = "wait_loop" /\ freeAtCancel[p]) => res[p] = "nil"

\* C10, amended: a WaitCtx in its loop on a path that has become free
\* eventually returns a File, unless another competitor starts to acquire the
\* path or the context is cancelled while WaitCtx is still in its select.
WaitEventuallyAcquires ==
  \A p \in Procs :
    WaitingFree(p) ~>
      \/ GotFile(p)
      \/ ctxDone[p] /\ pc[p] = "select"
      \/ \E q \in Procs \ {p} : ~Idle(q)

\* WaitCtx has returned a File from a retry, with its context live and
\* everyone else idle.
WaitEventuallyAcquiresWitness ==
  \E p \in Procs :
    /\ GotFile(p) /\ caller[p] = "wait_loop" /\ ~ctxDone[p]
    /\ \A q \in Procs \ {p} : Idle(q)

\* ---------------------------------------------------------- C11 .. C20

\* C11: once p's context is cancelled, WaitCtx starts no further Create: no
\* step takes p from its select to the start of a Create while the context
\* is done.
NoCreateAfterCancel ==
  [][\A p \in Procs :
       (ctxDone[p] /\ pc[p] = "select") => pc'[p] \notin {"open", "wcreate"}]_vars

\* ------------------------------------ WaitCtx over a Create that can fail
\* One competitor calls WaitCtx over a Create whose system calls can fail, while
\* the others acquire and release the path.
NextWait ==
  \/ WaitStart(Waiter)
  \/ CtxCancel(Waiter)
  \/ OpenFail(Waiter)
  \/ FlockFail(Waiter)
  \/ StatFail(Waiter)
  \/ \E p \in Procs \ {Waiter} : TestStart(p)
  \/ \E p \in Procs : TestRelease(p)
  \/ \E p \in Procs : Program(p)

SpecWait == Init /\ [][NextWait]_vars

\* The errors Create returns that IsTemporary rejects.
PermanentCreateErrors == {"ErrOpen", "ErrFlock", "ErrStatFd", "ErrStatType", "ErrNotEmpty"}

\* C12: every result of WaitCtx is a File from a successful Create, a
\* non-temporary error of Create, or the context's error, never an error that
\* IsTemporary accepts; and a non-temporary error of Create is returned by
\* the next step of WaitCtx, unchanged, with no Create in between.
WaitSurfacesPermanent ==
  /\ [](\A p \in Procs :
          pc[p] = "w_ret" =>
            /\ ~IsTemporary(res[p])
            /\ \/ res[p] = "nil" /\ hfile[p] # 0
               \/ res[p] \in PermanentCreateErrors /\ hfile[p] = 0
               \/ res[p] = "ctxErr" /\ ctxDone[p] /\ hfile[p] = 0)
  /\ [][\A p \in Procs :
          (pc[p] = "c_ret" /\ InWait(p) /\ res[p] \in PermanentCreateErrors
             /\ pc'[p] # pc[p])
          => (pc'[p] = "w_ret" /\ res'[p] = res[p])]_vars

\* WaitCtx has returned a non-temporary error that a retry's Create met.
WaitSurfacesPermanentWitness ==
  \E p \in Procs :
    pc[p] = "w_ret" /\ caller[p] = "wait_loop" /\ res[p] = "ErrFlock"

\* ------------------------------------------------- IsTemporary, by itself
\* The values of runtime.GOOS the two variants are built for.
GoosValues == {"linux", "darwin", "freebsd", "windows"}

\* Error values a caller can hand to IsTemporary: nil, the os sentinels, the
\* errors Create and Close make, the context errors, raw errnos, and errors
\* that wrap a sentinel (an *os.PathError around EEXIST or EACCES).
ErrorValues ==
  {"nil", "ErrExist", "ErrPermission", "ErrClosed", "ErrNotExist",
   "ErrNotEmpty", "ErrOpen", "ErrFlock", "ErrStatFd", "ErrStatType",
   "ErrFstat", "ErrStatPath", "ErrMoved", "ErrUnlink", "ErrCloseFd",
   "ctxErr", "ctxCanceled", "EWOULDBLOCK", "ERROR_FILE_EXISTS",
   "ERROR_ACCESS_DENIED", "PathErrorExist", "PathErrorPermission"}

\* A caller evaluates IsTemporary(err).
IsTemporaryCall ==
  /\ \E err \in ErrorValues :
       /\ arg' = err
       /\ out' = <<IsTemporary(err)>>
  /\ UNCHANGED <<pc, caller, cfile, hfile, res, waitVars, target, mutex, fsVars,
                 counter, envLeft, goos, solo, soloClosed, found, freeAtCancel>>

InitTemp ==
  /\ InitCommon
  /\ goos \in GoosValues
  /\ envLeft = 0

NextTemp == IsTemporaryCall

SpecTemp == InitTemp /\ [][NextTemp]_vars

\* C13: IsTemporary is true for os.ErrExist on every platform, true for
\* os.ErrPermission on windows only, and false for every other error value.
IsTemporaryTable ==
  out # <<>> =>
    out[1] = IF arg = "ErrExist" THEN TRUE
             ELSE IF arg = "ErrPermission" THEN goos = "windows"
             ELSE FALSE

\* IsTemporary has been evaluated on os.ErrPermission on the windows build.
IsTemporaryTableWitness ==
  out = <<TRUE>> /\ arg = "ErrPermission" /\ goos = "windows"

\* C14: a Close that reaches its unlink while the path is missing or names
\* another file than the handle's descriptor leaves the path as it is and
\* returns an error.
CloseSparesOtherFile ==
  [][\A t \in Procs :
       (pc[t] = "cl_unlink" /\ pc'[t] = "cl_close" /\ path # hfile[target[t]])
       => (path' = path /\ res'[t] # "nil")]_vars

\* --------------------------------- several goroutines closing the same File
\* A goroutine with no File of its own calls Close on the File that h made
\* and has not dropped.
ThreadClose(t, h) ==
  /\ pc[t] = "idle"
  /\ h # t
  /\ \/ pc[h] = "held"
     \/ /\ target[h] = h
        /\ pc[h] \in {"cl_enter", "cl_fstat", "cl_stat", "cl_unlink", "cl_close", "x_ret"}
  /\ target' = [target EXCEPT ![t] = h]
  /\ pc' = [pc EXCEPT ![t] = "cl_enter"]
  /\ GhostStart(t)
  /\ UNCHANGED <<caller, cfile, hfile, res, waitVars, mutex, fsVars, counter,
                 envLeft, goos, arg, out>>

\* Close has returned to t; the maker of a File drops it once no other
\* goroutine is calling Close on it.
ThreadDone(t) ==
  /\ target[t] = t => \A u \in Procs \ {t} : target[u] # t
  /\ TestDone(t)

\* TestCreateParallel's competitors, whose Files other goroutines close too.
NextThreads ==
  \E p \in Procs :
    \/ TestStart(p)
    \/ Open(p)
    \/ Flock(p)
    \/ Stat(p)
    \/ TestAfterCreate(p)
    \/ TestRelease(p)
    \/ \E h \in Procs : ThreadClose(p, h)
    \/ CloseEnter(p)
    \/ CloseFstat(p)
    \/ CloseStat(p)
    \/ CloseUnlink(p)
    \/ CloseDeferred(p)
    \/ ThreadDone(p)

SpecThreads == Init /\ [][NextThreads]_vars

\* The goroutines in the body of Close on File h, past the check of f.file.
InCloseBody(h) ==
  {t \in Procs : target[t] = h /\ pc[t] \in {"cl_fstat", "cl_stat", "cl_unlink", "cl_close"}}

\* The goroutines whose Close on File h ran the body and has returned.
RanCloseBody(h) ==
  {t \in Procs : target[t] = h /\ pc[t] = "x_ret" /\ res[t] # "ErrClosed"}

\* C15: the Close calls on one File are serialized by its mutex: at most one
\* goroutine is ever in the body or has run it, it holds the mutex and finds
\* f.file set while in it, and every other Close returns os.ErrClosed from a
\* File whose f.file is nil.
CloseSerialized ==
  \A h \in Procs :
    /\ Cardinality(InCloseBody(h) \cup RanCloseBody(h)) <= 1
    /\ \A t \in InCloseBody(h) : mutex[h] = t /\ hfile[h] # 0
    /\ InCloseBody(h) = {} => mutex[h] = 0
    /\ \A t \in Procs : (target[t] = h /\ pc[t] = "x_ret") => hfile[h] = 0

\* Two goroutines have called Close on the same File: one unlinked and closed
\* it, the other got os.ErrClosed.
CloseSerializedWitness ==
  \E h \in Procs, t \in Procs, u \in Procs :
    /\ t # u /\ target[t] = h /\ target[u] = h
    /\ pc[t] = "x_ret" /\ res[t] = "nil" /\ path = 0
    /\ pc[u] = "x_ret" /\ res[u] = "ErrClosed"

\* C16: Close unlinks before it closes the descriptor: a Close about to
\* unlink still has its descriptor open with the flock on it, and a Close
\* that has unlinked and not yet closed holds the flock on a file that is no
\* longer at the path, so the lock of a successful Close is never released
\* while its file is still linked there.
UnlinkBeforeClose ==
  \A t \in Procs :
    /\ pc[t] = "cl_unlink" =>
         /\ hfile[target[t]] # 0
         /\ lock[hfile[target[t]]] = target[t]
    /\ (pc[t] = "cl_close" /\ res[t] = "nil") =>
         /\ hfile[target[t]] # 0
         /\ lock[hfile[target[t]]] = target[t]
         /\ path # hfile[target[t]]

\* A Close has unlinked the path and still holds the flock, while another
\* competitor, which opened the file before the unlink, waits for the flock.
UnlinkBeforeCloseWitness ==
  \E t \in Procs, q \in Procs :
    /\ t # q
    /\ pc[t] = "cl_close" /\ res[t] = "nil" /\ path = 0
    /\ pc[q] = "flock" /\ cfile[q] = hfile[target[t]]

\* C17: a Create that has returned an error has closed the descriptor it
\* opened: the caller has no File, no descriptor of the failed call is left
\* open, and no flock is left on the file.
FailedCreateHoldsNothing ==
  \A p \in Procs :
    (pc[p] = "c_ret" /\ res[p] # "nil") =>
      /\ cfile[p] = 0 /\ hfile[p] = 0
      /\ leaked = {}
      /\ \A i \in Inodes : lock[i] \notin {p, LeakOwner}

\* C18: Create never returns a File on an unlinked file: a Create that finds
\* Nlink zero after taking the flock closes its descriptor and starts again
\* at the open, and every File that has been returned and whose Close has not
\* yet unlinked holds the flock on the file that the path names.
NoGhostFile ==
  /\ [](\A h \in Procs :
          (hfile[h] # 0 /\ ~(pc[h] = "cl_close" /\ res[h] = "nil")) =>
            /\ path = hfile[h]
            /\ Nlink(hfile[h]) > 0
            /\ lock[hfile[h]] = h)
  /\ [][\A p \in Procs :
          (pc[p] = "stat" /\ Nlink(cfile[p]) = 0 /\ pc'[p] # "stat") =>
            /\ pc'[p] = "open"
            /\ cfile'[p] = 0 /\ hfile'[p] = 0
            /\ lock'[cfile[p]] = 0]_vars

\* A Create holds the flock on a file that a Close unlinked after the Create
\* had opened it, and nobody has made a new file at the path yet.
NoGhostFileWitness ==
  \E p \in Procs :
    /\ pc[p] = "stat" /\ lock[cfile[p]] = p
    /\ Nlink(cfile[p]) = 0 /\ path = 0

\* p is inside a Create call.
InCreate(p) == pc[p] \in {"open", "flock", "stat"}

\* Another competitor's Close has just unlinked the path.
OtherCloseUnlinked(p) ==
  \E q \in Procs \ {p} : pc[q] = "cl_close" /\ res[q] = "nil"

\* C19: Create goes back to its open only from an fstat that shows a link
\* count of zero; the file was at the path when this iteration opened it, was
\* taken off the path by another competitor's Close before this iteration's
\* flock was granted, and cannot leave the path once the flock is granted, so
\* every restart takes an unlink of its own; and a Create in progress
\* returns, unless another competitor's Close unlinks the path once more.
CreateRestartsOnUnlink ==
  /\ [][\A p \in Procs :
          /\ (pc[p] = "open" /\ pc'[p] = "flock") => (cfile'[p] = path' /\ path' # 0)
          /\ (pc[p] = "flock" /\ path = cfile[p] /\ path' # path) =>
               \E q \in Procs \ {p} : pc[q] = "cl_unlink" /\ pc'[q] = "cl_close"
          /\ (pc[p] = "stat" /\ path = cfile[p]) => path' = path
          /\ (pc[p] = "stat" /\ pc'[p] = "open") =>
               (Nlink(cfile[p]) = 0 /\ path # cfile[p])]_vars
  /\ \A p \in Procs :
       InCreate(p) ~> (pc[p] = "c_ret" \/ OtherCloseUnlinked(p))

\* A Create is about to restart: the Close of the previous holder, which
\* unlinked the file this Create had opened, has returned.
CreateRestartsOnUnlinkWitness ==
  \E p \in Procs, q \in Procs :
    /\ p # q
    /\ pc[p] = "stat" /\ Nlink(cfile[p]) = 0
    /\ pc[q] = "x_ret" /\ res[q] = "nil"

\* Every Create in progress returns, whatever the other competitors do: this
\* is what fails when they acquire and release forever.
CreateAlwaysReturns ==
  \A p \in Procs : InCreate(p) ~> pc[p] = "c_ret"

\* ------------------------------------------------- the backoff, by itself
\* The retries of WaitCtx's loop that the model follows for the backoff.
MaxBackoffAttempt == 101

\* if attempt > 99 { attempt = 99 }
AttemptCap == 99

\* rand.IntN((1 + attempt) * 10)
BackoffStep == 10

\* time.Millisecond, in the nanoseconds of a time.Duration.
Millisecond == 1000000

\* Mutation: the attempt is not capped.
M_randomBackoffNoCap(n) ==
  {Millisecond * ms : ms \in 0..((1 + n) * BackoffStep - 1)}

\* The Durations randomBackoff(n) can return.
randomBackoff(n) ==
  LET capped == IF n > AttemptCap THEN AttemptCap ELSE n
  IN {Millisecond * ms : ms \in 0..((1 + capped) * BackoffStep - 1)}

\* time.NewTimer(randomBackoff(attempt)) before the loop and
\* timer.Reset(randomBackoff(attempt)) at the end of an iteration.
ArmTimer ==
  /\ out = <<>>
  /\ \E delay \in randomBackoff(arg) : out' = <<delay>>
  /\ UNCHANGED <<pc, caller, cfile, hfile, res, waitVars, target, mutex, fsVars,
                 counter, envLeft, goos, arg, solo, soloClosed, found, freeAtCancel>>

\* The timer fires and the Create of this iteration fails with a temporary
\* error: attempt++.
RetryFailed ==
  /\ out # <<>>
  /\ arg < MaxBackoffAttempt
  /\ arg' = arg + 1
  /\ out' = <<>>
  /\ UNCHANGED <<pc, caller, cfile, hfile, res, waitVars, target, mutex, fsVars,
                 counter, envLeft, goos, solo, soloClosed, found, freeAtCancel>>

NextBackoff == ArmTimer \/ RetryFailed

SpecBackoff == Init /\ [][NextBackoff]_vars

\* C20: the delay armed for retry n, where n starts at 0 and grows by one
\* with every temporary failure, is a whole number of milliseconds from 0 to
\* (min(n, 99) + 1) * 10 - 1: never negative and always below 1000 ms.
BackoffBounds ==
  /\ [](out # <<>> =>
          LET ms == out[1] \div 1000000
              capped == IF arg < 99 THEN arg ELSE 99
          IN /\ out[1] = ms * 1000000
             /\ ms >= 0 /\ ms <= (capped + 1) * 10 - 1
             /\ ms < 1000)
  /\ [][arg' = arg \/ (arg' = arg + 1 /\ out' = <<>>)]_vars

\* Past the cap, the longest delay there is has been armed.
BackoffBoundsWitness ==
  out # <<>> /\ arg > 99 /\ out[1] = 999 * 1000000

====
